---- MODULE Spec2Model ----
(***************************************************************************)
(* Model of the NavigationModal component of src/src/App.tsx: the route    *)
(* fetch, the GPS watch, start/stop, the position-fix effect (arrival,     *)
(* step advance, off-route re-routing) and the unmount cleanup.            *)
(*                                                                         *)
(* Coordinates are integers in units of 1/111000 degree, so that           *)
(*   Math.hypot(dLat, dLng) * 111_000 < m                                  *)
(* is  dLat^2 + dLng^2 < m^2  on the model's integers.  A position is the  *)
(* pair <<lat, lng>> (livePos); a maneuver location is <<lng, lat>> as in  *)
(* the OSRM payload.                                                       *)
(*                                                                         *)
(*                                                                         *)
(* One action is one task of the browser's event loop.  React (18, root    *)
(* made with createRoot) renders the updates of a click at the end of the  *)
(* click's own task, after it has run a passive effect still pending; it   *)
(* renders the updates made outside an event (a watch callback, a timer    *)
(* callback, the continuation of fetchRoute, a passive effect) in a later  *)
(* task, and runs the [livePos] effect of a render in a task after that    *)
(* render, with the values of that render.  The state variables hold the   *)
(* latest values set; `shown` holds what the last render put on the        *)
(* screen, and `effect` the values the pending [livePos] effect closed     *)
(* over.                                                                   *)
(***************************************************************************)
EXTENDS Integers, Sequences, FiniteSets, TLC

\* ------------------------------------------------------------------ bounds
\* Largest number of route fetches outstanding at the same time.
MaxPending == 2

\* ------------------------------------------------------- program constants
ArriveMeters == 25
AdvanceMeters == 35
OffRouteMeters == 120

\* ------------------------------------------------------------------ inputs
\* garage.lat, garage.lng: the destination the modal is opened with.
Garage == [lat |-> 0, lng |-> 300]
\* Another garage of the catalogue, which the `garage` prop can change to
\* when the :slug of the detail page changes under the open modal.
Garage2 == [lat |-> 200, lng |-> 130]
Garages == {Garage, Garage2}

\* Routes the provider can return (OsrmRoute, reduced to legs[0].steps and
\* each step to its maneuver.location = <<lng, lat>>).
RouteA == [steps |-> << <<0, 0>>, <<155, 0>>, <<300, 0>> >>]
RouteB == [steps |-> << <<130, 200>>, <<280, 0>>, <<300, 0>> >>]
RouteEmpty == [steps |-> << >>]
Routes == {RouteA, RouteB, RouteEmpty}

\* Positions the watch can report, <<lat, lng>>.  <<0, 120>> is exactly 120 m
\* from the first maneuver of RouteA and exactly 35 m from its second one;
\* <<0, 130>> is more than 120 m from the first and within 35 m of the
\* second; <<0, 275>> is exactly 25 m from Garage and exactly 120 m from the
\* second maneuver; <<0, 295>> is within 25 m of Garage.  For every fix and
\* every maneuver or garage of the model, the comparison on doubles gives the
\* result of the integer one.
Fixes == { <<0, 120>>, <<0, 130>>, <<0, 275>>, <<0, 295>> }

\* Initial location handed in by the parent (userLat, userLng).
InitPositions == { <<0, 0>> }

\* What `await fetch(...)` / `await res.json()` can produce: a throw, or a
\* body whose `routes` is the given sequence.
Responses ==
  { [throws |-> TRUE, routes |-> << >>] } \cup
  { [throws |-> FALSE, routes |-> rs] : rs \in { << >> } \cup { <<r>> : r \in Routes } }

NoRoute == [null |-> TRUE]
NoPos == << >>
NoError == "null"
NoHandle == 0
NoEffect == [none |-> TRUE]
NoStop == [none |-> TRUE]

VARIABLES
  mounted,       \* the component instance exists (until the commit that
                 \*   removes the modal)
  garage,        \* the garage prop (its lat and lng)
  hasInitLoc,    \* initLat != null && initLng != null
  geolocation,   \* navigator.geolocation is defined
  route, routeLoading, routeError,
  navMode, livePos, stepIdx, followUser, rerouting,
  watchRef,      \* watchRef.current (NoHandle = null)
  rerouteTimer,  \* rerouteTimer.current (NoHandle = null)
  queued,        \* the position of the last setLivePos call not rendered yet
                 \*   (NoPos if none)
  renderDue,     \* an update made outside a click (other than setLivePos) is
                 \*   queued and not rendered yet
  shown,         \* what the last render put on the screen: its navMode and
                 \*   whether its route was set (the buttons depend on them)
  effect,        \* the [livePos] effect scheduled by the last render and not
                 \*   run yet: the route, navMode, stepIdx and rerouting of
                 \*   that render (its livePos and garage are the current
                 \*   ones), NoEffect if none
  cleanupDue,    \* the modal was removed and the cleanup of its effects has
                 \*   not run yet
  watches,       \* ids of the geolocation watches the browser holds
  timers,        \* pending setTimeout callbacks: [id, lat, lng, toLat, toLng],
                 \*   the livePos and the fetchRoute (garage) of the arming render
  fetches,       \* fetchRoute calls suspended at their await:
                 \*   [id, fromLat, fromLng, toLat, toLng]
  runTimer,      \* history: handle of the timer armed by the current run of
                 \*   off-route fixes (a run ends at an on-route fix, a stop
                 \*   or an arrival), NoHandle if none is pending
  runFetch,      \* history: a timer armed by the current run has issued a fetch
  cycArmed,      \* history: a timer was armed since the last fetch completion
  stale,         \* history: ids of the fetches that were outstanding at a stop,
                 \*   an arrival or the unmount
  last,          \* history: the event that produced the state
  prev,          \* history: routeError and followUser before that event
  sinceFail,     \* history: the last fetch to complete failed, and no fix was
                 \*   rendered since
  atStop         \* history: the route and stepIdx that the last stopNavigation
                 \*   found, NoStop once navigation was started again or the
                 \*   modal closed

vars == << mounted, hasInitLoc, geolocation, route, routeLoading, routeError,
           navMode, livePos, stepIdx, followUser, rerouting, watchRef,
           rerouteTimer, watches, timers, fetches, runTimer, runFetch, cycArmed,
           stale, last, prev, sinceFail, garage, queued, effect, renderDue,
           shown, cleanupDue, atStop >>

hist == << runTimer, runFetch, cycArmed, stale >>

\* ----------------------------------------------------------------- helpers
\* (Math.hypot(aLat - bLat, aLng - bLng) * 111_000)^2
DistSq(aLat, aLng, bLat, bLng) ==
  (aLat - bLat) * (aLat - bLat) + (aLng - bLng) * (aLng - bLng)

\* route.legs[0]?.steps ?? []
StepsOf(r) == IF r = NoRoute THEN << >> ELSE r.steps

\* steps[i] !== undefined (i is a 0-based index)
HasStep(steps, i) == i >= 0 /\ i < Len(steps)

\* steps[i].maneuver.location, i 0-based
Location(steps, i) == steps[i + 1]

\* destDist <= 25
IsArrival_Inclusive(pos) ==
  DistSq(pos[1], pos[2], garage.lat, garage.lng) <= ArriveMeters * ArriveMeters

\* destDist < 25
IsArrival(pos) ==
  DistSq(pos[1], pos[2], garage.lat, garage.lng) < ArriveMeters * ArriveMeters

\* nextStep && d < 35, nextStep = steps[idx + 1]
NearNext(pos, steps, idx) ==
  /\ HasStep(steps, idx + 1)
  /\ LET loc == Location(steps, idx + 1)
         nLng == loc[1]
         nLat == loc[2]
     IN DistSq(pos[1], pos[2], nLat, nLng) < AdvanceMeters * AdvanceMeters

\* curStep && offRoute > 120, curStep = steps[idx]
IsOffRoute(pos, steps, idx) ==
  /\ HasStep(steps, idx)
  /\ LET loc == Location(steps, idx)
         cLng == loc[1]
         cLat == loc[2]
     IN DistSq(pos[1], pos[2], cLat, cLng) > OffRouteMeters * OffRouteMeters

\* A handle the browser has not handed out among the live ones: the smallest
\* positive integer outside `used`.
FreshId(used) == CHOOSE n \in 1..(Cardinality(used) + 1) :
                   /\ n \notin used
                   /\ \A m \in 1..(n - 1) : m \in used

TimerIds == { t.id : t \in timers }
FetchIds == { f.id : f \in fetches }

\* History: the values an event found.
Remember == prev' = [routeError |-> routeError, followUser |-> followUser]

\* clearTimeout(h): the pending callbacks without the one whose handle is h.
ClearTimeout(ts, h) == { t \in ts : t.id # h }

\* ------------------------------------------------------------------- Init
\* The state after the first render and the mount effect: every useState at
\* its initial value and, if an initial location is known, fetchRoute called
\* and suspended at its await, its setRouteLoading(true) not rendered yet.
Init ==
  /\ mounted = TRUE
  /\ garage = Garage
  /\ hasInitLoc \in BOOLEAN
  /\ geolocation \in BOOLEAN
  /\ route = NoRoute
  /\ routeLoading = hasInitLoc
  /\ routeError = NoError
  /\ navMode = "preview"
  /\ livePos \in (IF hasInitLoc THEN InitPositions ELSE {NoPos})
  /\ stepIdx = 0
  /\ followUser = TRUE
  /\ rerouting = FALSE
  /\ watchRef = NoHandle
  /\ rerouteTimer = NoHandle
  /\ queued = NoPos
  /\ renderDue = hasInitLoc
  /\ shown = [navMode |-> "preview", route |-> FALSE]
  /\ effect = NoEffect
  /\ cleanupDue = FALSE
  /\ watches = {}
  /\ timers = {}
  /\ fetches = IF hasInitLoc
               THEN { [id |-> 1, fromLat |-> livePos[1], fromLng |-> livePos[2],
                        toLat |-> garage.lat, toLng |-> garage.lng] }
               ELSE {}
  /\ runTimer = NoHandle
  /\ runFetch = FALSE
  /\ cycArmed = FALSE
  /\ stale = {}
  /\ last = "mount"
  /\ prev = [routeError |-> NoError, followUser |-> TRUE]
  /\ sinceFail = FALSE
  /\ atStop = NoStop

\* ------------------------------------------- handlers and the effect body
\* The part of the state that the click handlers and the [livePos] effect
\* write: a handler and the effect flushed behind it run in one task, each on
\* what the one before it left.
Cur ==
  [ navMode |-> navMode, stepIdx |-> stepIdx, followUser |-> followUser,
    rerouting |-> rerouting, watchRef |-> watchRef, rerouteTimer |-> rerouteTimer,
    watches |-> watches, timers |-> timers, renderDue |-> renderDue,
    runTimer |-> runTimer, runFetch |-> runFetch, cycArmed |-> cycArmed,
    stale |-> stale ]

\* The state of the next moment is s.
Commit(s) ==
  /\ navMode' = s.navMode
  /\ stepIdx' = s.stepIdx
  /\ followUser' = s.followUser
  /\ rerouting' = s.rerouting
  /\ watchRef' = s.watchRef
  /\ rerouteTimer' = s.rerouteTimer
  /\ watches' = s.watches
  /\ timers' = s.timers
  /\ renderDue' = s.renderDue
  /\ runTimer' = s.runTimer
  /\ runFetch' = s.runFetch
  /\ cycArmed' = s.cycArmed
  /\ stale' = s.stale

\* History: a stop, an arrival: the run of off-route fixes ends, and the
\* fetches outstanding now are those of the session that ended.
Ended(s) ==
  [s EXCEPT !.runTimer = NoHandle, !.runFetch = FALSE, !.stale = @ \cup FetchIds]

\* stopWatch(): clearWatch and watchRef.current = null if a watch is held;
\* clearTimeout(rerouteTimer.current) if it is set (the ref keeps its value).
StopWatch(s) ==
  [s EXCEPT !.watches = IF s.watchRef # NoHandle THEN @ \ {s.watchRef} ELSE @,
            !.watchRef = NoHandle,
            !.timers = IF s.rerouteTimer # NoHandle
                       THEN ClearTimeout(@, s.rerouteTimer) ELSE @]

\* startNavigation: setNavMode('navigating'); setFollowUser(true);
\* if (!navigator.geolocation) return; watchRef.current = watchPosition(...)
StartNavigationHandler(s) ==
  LET h == FreshId(s.watches \cup {s.watchRef})
  IN [s EXCEPT !.navMode = "navigating",
               !.followUser = TRUE,
               !.watchRef = IF geolocation THEN h ELSE @,
               !.watches = IF geolocation THEN @ \cup {h} ELSE @]

\* stopNavigation: stopWatch(); setNavMode('preview'); setFollowUser(false)
StopNavigationHandler(s) ==
  Ended([StopWatch(s) EXCEPT !.navMode = "preview", !.followUser = FALSE])

\* onRecenter: setFollowUser(true)
RecenterHandler(s) == [s EXCEPT !.followUser = TRUE]

\* The effect is scheduled and will go past its first return:
\* !(!livePos || !route || navMode !== 'navigating'), on the values of its render.
PastFirstReturn ==
  /\ effect # NoEffect
  /\ effect.route # NoRoute
  /\ effect.navMode = "navigating"

\* The arrival branch placed after the step advance instead of before it.
EffectArrival_AfterAdvance(s) ==
  LET a == Ended([StopWatch(s) EXCEPT !.navMode = "preview", !.renderDue = TRUE])
  IN IF NearNext(livePos, StepsOf(effect.route), effect.stepIdx)
     THEN [a EXCEPT !.stepIdx = @ + 1]
     ELSE a

\* The body of the [livePos] effect once it is past its first return, for a
\* fix that is an arrival: stopWatch(); setNavMode('preview'); return.
EffectArrival(s) ==
  Ended([StopWatch(s) EXCEPT !.navMode = "preview", !.renderDue = TRUE])

\* A step advance that goes on to the last of the consecutive steps in range.
EffectAdvance_SkipsAhead(s, pos, steps) ==
  LET from == effect.stepIdx
      reach == { j \in (from + 1)..(Len(steps) - 1) :
                   \A k \in (from + 1)..j : NearNext(pos, steps, k - 1) }
  IN IF reach = {} THEN s
     ELSE [s EXCEPT !.stepIdx = @ + (CHOOSE j \in reach : \A k \in reach : k <= j) - from,
                    !.renderDue = TRUE]

\* if (d < 35) setStepIdx((i) => i + 1): the test reads the stepIdx of the
\* effect's render, the updater the current one.
EffectAdvance(s, pos, steps) ==
  IF NearNext(pos, steps, effect.stepIdx)
  THEN [s EXCEPT !.stepIdx = @ + 1, !.renderDue = TRUE]
  ELSE s

\* The off-route check without the !rerouting condition.
RerouteDue_IgnoresRerouting(pos, steps) == IsOffRoute(pos, steps, effect.stepIdx)

\* The off-route check made against the step the advance has just moved to.
RerouteDue_AfterAdvance(pos, steps) ==
  /\ ~effect.rerouting
  /\ IsOffRoute(pos, steps,
                IF NearNext(pos, steps, effect.stepIdx)
                THEN effect.stepIdx + 1 ELSE effect.stepIdx)

\* if (curStep && !rerouting) { if (offRoute > 120) { ... } }, on the stepIdx
\* and rerouting of the effect's render.
RerouteDue(pos, steps) ==
  ~effect.rerouting /\ IsOffRoute(pos, steps, effect.stepIdx)

\* History: a fix that is not off-route ends the run of off-route fixes.
RunGoesOn(s, pos, steps) ==
  IF IsOffRoute(pos, steps, effect.stepIdx)
  THEN s
  ELSE [s EXCEPT !.runTimer = NoHandle, !.runFetch = FALSE]

\* The off-route branch without setRerouting(true): the timer is armed (once,
\* while none is pending) and the flag is left to the fetch.
EffectReroute_NoFlag(s, pos, steps) ==
  IF IsOffRoute(pos, steps, effect.stepIdx) /\ s.timers = {} /\ fetches = {}
  THEN LET h == FreshId({s.rerouteTimer})
       IN [s EXCEPT !.rerouteTimer = h,
                    !.timers = { [id |-> h, lat |-> pos[1], lng |-> pos[2],
                                   toLat |-> garage.lat, toLng |-> garage.lng] },
                    !.cycArmed = TRUE,
                    !.runTimer = h]
  ELSE RunGoesOn(s, pos, steps)

\* The off-route branch as a classic debounce: every off-route fix clears the
\* armed timer and arms a new one, whether rerouting is set or not.
EffectReroute_Rearms(s, pos, steps) ==
  IF IsOffRoute(pos, steps, effect.stepIdx)
  THEN LET cleared == IF s.rerouteTimer # NoHandle
                      THEN ClearTimeout(s.timers, s.rerouteTimer)
                      ELSE s.timers
           h == FreshId({ t.id : t \in cleared } \cup {s.rerouteTimer})
       IN [s EXCEPT !.rerouting = TRUE,
                    !.rerouteTimer = h,
                    !.timers = cleared \cup
                                 { [id |-> h, lat |-> pos[1], lng |-> pos[2],
                                    toLat |-> garage.lat, toLng |-> garage.lng] },
                    !.cycArmed = TRUE,
                    !.runTimer = h,
                    !.renderDue = TRUE]
  ELSE RunGoesOn(s, pos, steps)

\* setRerouting(true); clearTimeout(rerouteTimer.current);
\* rerouteTimer.current = setTimeout(() => fetchRoute(livePos[0], livePos[1]), 1500)
EffectReroute(s, pos, steps) ==
  IF RerouteDue(pos, steps)
  THEN LET cleared == IF s.rerouteTimer # NoHandle
                      THEN ClearTimeout(s.timers, s.rerouteTimer)
                      ELSE s.timers
           h == FreshId({ t.id : t \in cleared } \cup {s.rerouteTimer})
       IN [s EXCEPT !.rerouting = TRUE,
                    !.rerouteTimer = h,
                    !.timers = cleared \cup
                                 { [id |-> h, lat |-> pos[1], lng |-> pos[2],
                                    toLat |-> garage.lat, toLng |-> garage.lng] },
                    !.cycArmed = TRUE,
                    !.runTimer = h,
                    !.renderDue = TRUE]
  ELSE RunGoesOn(s, pos, steps)

\* if (destDist < 25) as the effect evaluates it: before, and whatever the
\* values of, stepIdx and rerouting.
ArrivalDue(pos) == IsArrival(pos)

\* The [livePos] effect run on s, with the route, navMode, stepIdx and
\* rerouting of its render; the refs it reads and the updater of setStepIdx
\* are those of s.  Its setters are called outside a click: what they set is
\* rendered in a later task.
EffectBody(s) ==
  IF ~PastFirstReturn THEN s
  ELSE IF ArrivalDue(livePos) THEN EffectArrival(s)
  ELSE EffectReroute(EffectAdvance(s, livePos, StepsOf(effect.route)),
                     livePos, StepsOf(effect.route))

\* React runs a passive effect still pending before it renders (here: the
\* render of a click's updates, at the end of the click's task).
FlushPassiveEffects(s) == IF effect # NoEffect THEN EffectBody(s) ELSE s

\* ---------------------------------------------------------------- actions
\* A click on the Start button, which is on the screen of a render in
\* preview and disabled if that render had !route || !hasInitLoc: the
\* handler, then the pending effect, then the render of the click's updates.
StartNavigation ==
  /\ mounted
  /\ shown.navMode = "preview"
  /\ shown.route /\ hasInitLoc
  /\ Commit(FlushPassiveEffects(StartNavigationHandler(Cur)))
  /\ effect' = NoEffect
  /\ shown' = [shown EXCEPT !.navMode = "navigating"]
  /\ last' = "start"
  /\ Remember
  /\ atStop' = NoStop
  /\ UNCHANGED << mounted, garage, hasInitLoc, geolocation, route, routeLoading,
                  routeError, livePos, queued, cleanupDue, fetches, sinceFail >>

\* A click on the Stop button of the navigating bar, which is on the screen
\* of a render with isNavigating && route: the handler, then the pending
\* effect, then the render of the click's updates.
StopNavigation ==
  /\ mounted
  /\ shown.navMode = "navigating" /\ shown.route
  /\ Commit(FlushPassiveEffects(StopNavigationHandler(Cur)))
  /\ effect' = NoEffect
  /\ shown' = [shown EXCEPT !.navMode = "preview"]
  /\ last' = "stop"
  /\ Remember
  /\ atStop' = [route |-> route, stepIdx |-> stepIdx]
  /\ UNCHANGED << mounted, garage, hasInitLoc, geolocation, route, routeLoading,
                  routeError, livePos, queued, cleanupDue, fetches, sinceFail >>

\* A click on the RecenterControl, rendered while userMarkerPos is known: the
\* handler, then the pending effect, then the render of the click's update.
\* While a [livePos] effect is pending the component has not been rendered
\* since the render of setLivePos, and React then schedules the render of
\* setFollowUser(true) even if followUser is true already; with no effect
\* pending the render shows nothing new.  The render leaves the updates made
\* outside a click to theirs.
Recenter ==
  /\ mounted
  /\ livePos # NoPos
  /\ Commit(FlushPassiveEffects(RecenterHandler(Cur)))
  /\ effect' = NoEffect
  /\ last' = "recenter"
  /\ Remember
  /\ UNCHANGED atStop
  /\ UNCHANGED << mounted, garage, hasInitLoc, geolocation, route, routeLoading,
                  routeError, livePos, queued, shown, cleanupDue, fetches,
                  sinceFail >>

\* The watchPosition success callback: setLivePos(newPos) is queued (the
\* callback runs outside a React event, the render comes later); a second
\* call before the render replaces the queued value.
OnPosition(pos) ==
  /\ mounted
  /\ watchRef # NoHandle /\ watchRef \in watches
  /\ queued' = pos
  /\ last' = "callback"
  /\ Remember
  /\ UNCHANGED atStop
  /\ UNCHANGED << mounted, garage, hasInitLoc, geolocation, route, routeLoading,
                  routeError, navMode, livePos, stepIdx, followUser, rerouting,
                  watchRef, rerouteTimer, watches, timers, fetches, hist,
                  sinceFail, effect, renderDue, shown, cleanupDue >>

\* The render of the updates made outside a click.  It puts the latest
\* values on the screen; if a livePos is queued it commits it and, livePos
\* having changed, schedules the [livePos] effect with the values of this
\* render.  React runs a passive effect still pending before it renders,
\* hence effect = NoEffect.
Render ==
  /\ mounted
  /\ renderDue \/ queued # NoPos
  /\ effect = NoEffect
  /\ renderDue' = FALSE
  /\ shown' = [navMode |-> navMode, route |-> route # NoRoute]
  /\ IF queued # NoPos
     THEN /\ livePos' = queued
          /\ queued' = NoPos
          /\ effect' = [route |-> route, navMode |-> navMode, stepIdx |-> stepIdx,
                        rerouting |-> rerouting, afterFail |-> sinceFail]
          /\ sinceFail' = FALSE
     ELSE UNCHANGED << livePos, queued, effect, sinceFail >>
  /\ last' = "render"
  /\ Remember
  /\ UNCHANGED atStop
  /\ UNCHANGED << mounted, garage, hasInitLoc, geolocation, route, routeLoading,
                  routeError, navMode, stepIdx, followUser, rerouting,
                  watchRef, rerouteTimer, watches, timers, fetches, hist,
                  cleanupDue >>

\* The [livePos] effect run in a task of its own.
PositionEffect ==
  /\ effect # NoEffect
  /\ Commit(EffectBody(Cur))
  /\ effect' = NoEffect
  /\ last' = IF ~PastFirstReturn THEN "skip"
             ELSE IF ArrivalDue(livePos) THEN "arrive" ELSE "fix"
  /\ Remember
  /\ UNCHANGED atStop
  /\ UNCHANGED << mounted, garage, hasInitLoc, geolocation, route, routeLoading,
                  routeError, livePos, queued, shown, cleanupDue, fetches,
                  sinceFail >>

\* The timer callback of a repeating timer (setInterval for setTimeout): the
\* callback stays pending after it ran.
TimerFire_Repeats(t) ==
  /\ t \in timers
  /\ last' = "timer"
  /\ Remember
  /\ UNCHANGED atStop
  /\ UNCHANGED << garage, sinceFail, queued, effect, shown, cleanupDue >>
  /\ Cardinality(fetches) < MaxPending
  /\ timers' = timers
  /\ fetches' = fetches \cup
       { [id |-> FreshId(FetchIds \cup stale), fromLat |-> t.lat, fromLng |-> t.lng,
          toLat |-> t.toLat, toLng |-> t.toLng] }
  /\ IF mounted
     THEN /\ routeLoading' = TRUE /\ routeError' = NoError
          /\ renderDue' = (renderDue \/ ~routeLoading \/ routeError # NoError)
     ELSE UNCHANGED << routeLoading, routeError, renderDue >>
  /\ runFetch' = (runFetch \/ t.id = runTimer)
  /\ runTimer' = IF t.id = runTimer THEN NoHandle ELSE runTimer
  /\ UNCHANGED << mounted, hasInitLoc, geolocation, route, navMode, livePos,
                  stepIdx, followUser, rerouting, watchRef, rerouteTimer,
                  watches, cycArmed, stale >>

\* The timer callback with a fetchRoute that does not call setRouteError(null)
\* before its await.
TimerFire_KeepsError(t) ==
  /\ t \in timers
  /\ last' = "timer"
  /\ Remember
  /\ UNCHANGED atStop
  /\ UNCHANGED << garage, sinceFail, queued, effect, shown, cleanupDue >>
  /\ Cardinality(fetches) < MaxPending
  /\ timers' = timers \ {t}
  /\ fetches' = fetches \cup
       { [id |-> FreshId(FetchIds \cup stale), fromLat |-> t.lat, fromLng |-> t.lng,
          toLat |-> t.toLat, toLng |-> t.toLng] }
  /\ IF mounted
     THEN /\ routeLoading' = TRUE /\ UNCHANGED routeError
          /\ renderDue' = (renderDue \/ ~routeLoading)
     ELSE UNCHANGED << routeLoading, routeError, renderDue >>
  /\ runFetch' = (runFetch \/ t.id = runTimer)
  /\ runTimer' = IF t.id = runTimer THEN NoHandle ELSE runTimer
  /\ UNCHANGED << mounted, hasInitLoc, geolocation, route, navMode, livePos,
                  stepIdx, followUser, rerouting, watchRef, rerouteTimer,
                  watches, cycArmed, stale >>

\* The timer callback reading the latest position (a ref kept up to date)
\* instead of the livePos its closure captured.
TimerFire_UsesLatestFix(t) ==
  /\ t \in timers
  /\ last' = "timer"
  /\ Remember
  /\ UNCHANGED atStop
  /\ UNCHANGED << garage, sinceFail, queued, effect, shown, cleanupDue >>
  /\ Cardinality(fetches) < MaxPending
  /\ timers' = timers \ {t}
  /\ fetches' = fetches \cup
       { [id |-> FreshId(FetchIds \cup stale), fromLat |-> livePos[1],
          fromLng |-> livePos[2], toLat |-> t.toLat, toLng |-> t.toLng] }
  /\ IF mounted
     THEN /\ routeLoading' = TRUE /\ routeError' = NoError
          /\ renderDue' = (renderDue \/ ~routeLoading \/ routeError # NoError)
     ELSE UNCHANGED << routeLoading, routeError, renderDue >>
  /\ runFetch' = (runFetch \/ t.id = runTimer)
  /\ runTimer' = IF t.id = runTimer THEN NoHandle ELSE runTimer
  /\ UNCHANGED << mounted, hasInitLoc, geolocation, route, navMode, livePos,
                  stepIdx, followUser, rerouting, watchRef, rerouteTimer,
                  watches, cycArmed, stale >>

\* The timer callback: fetchRoute(livePos[0], livePos[1]) with the livePos of
\* the render that armed it, up to the await: setRouteLoading(true);
\* setRouteError(null); fetch(...).  The setters schedule a render if they
\* change a value; after the unmount they do nothing.
TimerFire(t) ==
  /\ t \in timers
  /\ last' = "timer"
  /\ Remember
  /\ UNCHANGED atStop
  /\ UNCHANGED << garage, sinceFail, queued, effect, shown, cleanupDue >>
  /\ Cardinality(fetches) < MaxPending
  /\ timers' = timers \ {t}
  /\ fetches' = fetches \cup
       { [id |-> FreshId(FetchIds \cup stale), fromLat |-> t.lat, fromLng |-> t.lng,
          toLat |-> t.toLat, toLng |-> t.toLng] }
  /\ IF mounted
     THEN /\ routeLoading' = TRUE /\ routeError' = NoError
          /\ renderDue' = (renderDue \/ ~routeLoading \/ routeError # NoError)
     ELSE UNCHANGED << routeLoading, routeError, renderDue >>
  /\ runFetch' = (runFetch \/ t.id = runTimer)
  /\ runTimer' = IF t.id = runTimer THEN NoHandle ELSE runTimer
  /\ UNCHANGED << mounted, hasInitLoc, geolocation, route, navMode, livePos,
                  stepIdx, followUser, rerouting, watchRef, rerouteTimer,
                  watches, cycArmed, stale >>

\* data.routes?.[0]
FirstRoute(resp) == IF Len(resp.routes) > 0 THEN resp.routes[1] ELSE NoRoute

\* try { ... } catch { ... } without setStepIdx(0) on success.
ApplyResponse_KeepsStep(resp) ==
  IF resp.throws
  THEN /\ routeError' = "Could not load route"
       /\ UNCHANGED << route, stepIdx >>
  ELSE IF FirstRoute(resp) # NoRoute
  THEN /\ route' = FirstRoute(resp)
       /\ UNCHANGED << stepIdx, routeError >>
  ELSE /\ routeError' = "No route found"
       /\ UNCHANGED << route, stepIdx >>

\* try { ... } catch { ... } whose catch also calls setRoute(null).
ApplyResponse_ClearsOnThrow(resp) ==
  IF resp.throws
  THEN /\ routeError' = "Could not load route"
       /\ route' = NoRoute
       /\ UNCHANGED stepIdx
  ELSE IF FirstRoute(resp) # NoRoute
  THEN /\ route' = FirstRoute(resp)
       /\ stepIdx' = 0
       /\ UNCHANGED routeError
  ELSE /\ routeError' = "No route found"
       /\ UNCHANGED << route, stepIdx >>

\* try { ... } catch { ... } that drops the route when no route is found.
ApplyResponse_DropsRoute(resp) ==
  IF resp.throws
  THEN /\ routeError' = "Could not load route"
       /\ UNCHANGED << route, stepIdx >>
  ELSE IF FirstRoute(resp) # NoRoute
  THEN /\ route' = FirstRoute(resp)
       /\ stepIdx' = 0
       /\ UNCHANGED routeError
  ELSE /\ routeError' = "No route found"
       /\ route' = NoRoute
       /\ stepIdx' = 0

\* try { data = await res.json(); if (data.routes?.[0]) { setRoute; setStepIdx(0) }
\*       else setRouteError('No route found') } catch { setRouteError(...) }
ApplyResponse(resp) ==
  IF resp.throws
  THEN /\ routeError' = "Could not load route"
       /\ UNCHANGED << route, stepIdx >>
  ELSE IF FirstRoute(resp) # NoRoute
  THEN /\ route' = FirstRoute(resp)
       /\ stepIdx' = 0
       /\ UNCHANGED routeError
  ELSE /\ routeError' = "No route found"
       /\ UNCHANGED << route, stepIdx >>

\* The setters of the continuation schedule a render: setRoute is given a new
\* object, the others a value that may be the one already set.
FetchSchedulesRender(resp) ==
  \/ ~resp.throws /\ FirstRoute(resp) # NoRoute
  \/ routeError' # routeError
  \/ routeLoading
  \/ rerouting

\* The continuation of fetchRoute with a setFollowUser(true) next to
\* setRoute, to show a new route centred on the user.
FetchComplete_Recenters(f, resp) ==
  /\ f \in fetches
  /\ fetches' = fetches \ {f}
  /\ stale' = stale \ {f.id}
  /\ cycArmed' = FALSE
  /\ last' = IF ~resp.throws /\ FirstRoute(resp) # NoRoute THEN "fetchOk" ELSE "fetchFail"
  /\ Remember
  /\ UNCHANGED atStop
  /\ sinceFail' = IF ~mounted THEN sinceFail
                  ELSE (resp.throws \/ FirstRoute(resp) = NoRoute)
  /\ UNCHANGED << garage, queued, effect, shown, cleanupDue >>
  /\ IF ~mounted
     THEN UNCHANGED << route, stepIdx, routeError, routeLoading, rerouting,
                       followUser, renderDue >>
     ELSE /\ ApplyResponse(resp)
          /\ followUser' = IF ~resp.throws /\ FirstRoute(resp) # NoRoute
                           THEN TRUE ELSE followUser
          /\ routeLoading' = FALSE
          /\ rerouting' = FALSE
          /\ renderDue' = (renderDue \/ FetchSchedulesRender(resp))
  /\ UNCHANGED << mounted, hasInitLoc, geolocation, navMode, livePos,
                  watchRef, rerouteTimer, watches, timers,
                  runTimer, runFetch >>

\* The continuation of fetchRoute with setRerouting(false) in the success
\* branch of the try instead of the finally.
FetchComplete_ClearsOnSuccessOnly(f, resp) ==
  /\ f \in fetches
  /\ fetches' = fetches \ {f}
  /\ stale' = stale \ {f.id}
  /\ cycArmed' = FALSE
  /\ last' = IF ~resp.throws /\ FirstRoute(resp) # NoRoute THEN "fetchOk" ELSE "fetchFail"
  /\ Remember
  /\ UNCHANGED atStop
  /\ sinceFail' = IF ~mounted THEN sinceFail
                  ELSE (resp.throws \/ FirstRoute(resp) = NoRoute)
  /\ UNCHANGED << garage, queued, effect, shown, cleanupDue >>
  /\ IF ~mounted
     THEN UNCHANGED << route, stepIdx, routeError, routeLoading, rerouting,
                       renderDue >>
     ELSE /\ ApplyResponse(resp)
          /\ routeLoading' = FALSE
          /\ rerouting' = IF ~resp.throws /\ FirstRoute(resp) # NoRoute
                          THEN FALSE ELSE rerouting
          /\ renderDue' = (renderDue \/ FetchSchedulesRender(resp))
  /\ UNCHANGED << mounted, hasInitLoc, geolocation, navMode, livePos,
                  followUser, watchRef, rerouteTimer, watches, timers,
                  runTimer, runFetch >>

\* The continuation of fetchRoute after its await, with the response resp:
\* try / catch / finally.  After the unmount the setters do nothing.
FetchComplete(f, resp) ==
  /\ f \in fetches
  /\ fetches' = fetches \ {f}
  /\ stale' = stale \ {f.id}
  /\ cycArmed' = FALSE
  /\ last' = IF ~resp.throws /\ FirstRoute(resp) # NoRoute THEN "fetchOk" ELSE "fetchFail"
  /\ Remember
  /\ UNCHANGED atStop
  /\ sinceFail' = IF ~mounted THEN sinceFail
                  ELSE (resp.throws \/ FirstRoute(resp) = NoRoute)
  /\ UNCHANGED << garage, queued, effect, shown, cleanupDue >>
  /\ IF ~mounted
     THEN UNCHANGED << route, stepIdx, routeError, routeLoading, rerouting,
                       renderDue >>
     ELSE /\ ApplyResponse(resp)
          /\ routeLoading' = FALSE
          /\ rerouting' = FALSE
          /\ renderDue' = (renderDue \/ FetchSchedulesRender(resp))
  /\ UNCHANGED << mounted, hasInitLoc, geolocation, navMode, livePos,
                  followUser, watchRef, rerouteTimer, watches, timers,
                  runTimer, runFetch >>

\* The commit that removes the modal: onClose (X button, Exit button,
\* backdrop click) makes the parent drop it, and <AnimatePresence> removes
\* it when its exit animation has ended.  From here the setters of the
\* component do nothing and the updates queued for it are dropped; the watch
\* and the timer live on until the cleanup runs.  React runs a passive effect
\* still pending before it renders, hence effect = NoEffect.
Close ==
  /\ mounted
  /\ effect = NoEffect
  /\ mounted' = FALSE
  /\ cleanupDue' = TRUE
  /\ queued' = NoPos
  /\ Commit([Ended(Cur) EXCEPT !.renderDue = FALSE])
  /\ last' = "close"
  /\ Remember
  /\ atStop' = NoStop
  /\ UNCHANGED << garage, hasInitLoc, geolocation, route, routeLoading,
                  routeError, livePos, effect, shown, fetches, sinceFail >>

\* The cleanup of useEffect(() => () => stopWatch(), [stopWatch]), run in a
\* task after the commit that removed the modal.
UnmountCleanup ==
  /\ ~mounted
  /\ cleanupDue
  /\ cleanupDue' = FALSE
  /\ Commit(StopWatch(Cur))
  /\ last' = "cleanup"
  /\ Remember
  /\ UNCHANGED atStop
  /\ UNCHANGED << mounted, garage, hasInitLoc, geolocation, route, routeLoading,
                  routeError, livePos, queued, effect, shown, fetches,
                  sinceFail >>

\* The user drags the map.  The MapContainer is given no drag or move
\* handler, so no state of the component changes.
ManualPan ==
  /\ mounted
  /\ last' = "pan"
  /\ Remember
  /\ UNCHANGED atStop
  /\ UNCHANGED << mounted, garage, hasInitLoc, geolocation, route, routeLoading,
                  routeError, navMode, livePos, stepIdx, followUser, rerouting,
                  watchRef, rerouteTimer, watches, timers, fetches, hist,
                  sinceFail, queued, effect, renderDue, shown, cleanupDue >>

\* The watchPosition error callback, () => {}.
WatchError ==
  /\ mounted
  /\ watchRef # NoHandle /\ watchRef \in watches
  /\ last' = "watchError"
  /\ Remember
  /\ UNCHANGED atStop
  /\ UNCHANGED << mounted, garage, hasInitLoc, geolocation, route, routeLoading,
                  routeError, navMode, livePos, stepIdx, followUser, rerouting,
                  watchRef, rerouteTimer, watches, timers, fetches, hist,
                  sinceFail, queued, effect, renderDue, shown, cleanupDue >>

\* The garage prop changes under the mounted modal (the detail page is
\* re-rendered for another :slug).  The mount effect has [] as dependencies
\* and does not run again; only later renders see the new garage.  React
\* runs the passive effects still pending before it renders, so no [livePos]
\* effect is pending across the change.
DestinationChanged(g) ==
  /\ mounted
  /\ effect = NoEffect
  /\ g # garage
  /\ garage' = g
  /\ last' = "destination"
  /\ Remember
  /\ UNCHANGED atStop
  /\ UNCHANGED << mounted, hasInitLoc, geolocation, route, routeLoading,
                  routeError, navMode, livePos, stepIdx, followUser, rerouting,
                  watchRef, rerouteTimer, watches, timers, fetches, hist,
                  sinceFail, queued, effect, renderDue, shown, cleanupDue >>

Next ==
  \/ StartNavigation
  \/ StopNavigation
  \/ \E pos \in Fixes : OnPosition(pos)
  \/ Render
  \/ PositionEffect
  \/ \E t \in timers : TimerFire(t)
  \/ \E f \in fetches, resp \in Responses : FetchComplete(f, resp)
  \/ Recenter
  \/ Close
  \/ UnmountCleanup
  \/ ManualPan
  \/ WatchError
  \/ \E g \in Garages : DestinationChanged(g)

Spec == Init /\ [][Next]_vars

\* React renders a queued update and runs a scheduled effect and a cleanup;
\* the browser runs a pending setTimeout callback once its delay has passed
\* and no clearTimeout removed it; every fetch settles (resolves or rejects),
\* so the continuation of fetchRoute runs.
Fairness ==
  /\ WF_vars(Render)
  /\ WF_vars(PositionEffect)
  /\ WF_vars(UnmountCleanup)
  /\ WF_vars(\E t \in timers : TimerFire(t))
  /\ WF_vars(\E f \in fetches, resp \in Responses : FetchComplete(f, resp))

FairSpec == Spec /\ Fairness
\* ------------------------------------------------------------------ claims
Navigating == mounted /\ navMode = "navigating" /\ route # NoRoute

\* The step runs the pending [livePos] effect: in a task of its own, or in
\* the task of a click, behind the click's handler.
EffectRuns == effect # NoEffect /\ effect' = NoEffect

\* The step runs the pending [livePos] effect and no stopNavigation before
\* it (the other handlers write nothing that the effect writes).
EffectAlone == EffectRuns /\ ~StopNavigation

\* C1 (as stated): a fix rendered while navigating with a route and closer
\* than 25 m to the destination puts the session in a mode Arrived, whatever stepIdx and
\* rerouting are.
C1_Original ==
  [][(PastFirstReturn /\ IsArrival(livePos) /\ EffectRuns) =>
       navMode' = "arrived"]_vars

\* C2: the effect of a fix rendered while navigating, within 35 m of the
\* maneuver of the step after the render's stepIdx and more than 25 m from
\* the destination, raises stepIdx by exactly 1; no step of the program
\* raises it by more than 1, also when later maneuvers are within 35 m too.
C2_AdvanceByOne ==
  [][ /\ stepIdx' <= stepIdx + 1
      /\ (PastFirstReturn /\ EffectRuns) =>
           ( /\ NearNext(livePos, StepsOf(effect.route), effect.stepIdx)
             /\ DistSq(livePos[1], livePos[2], garage.lat, garage.lng)
                  > ArriveMeters * ArriveMeters
             => stepIdx' = stepIdx + 1 ) ]_vars

C2_Witness ==
  /\ last = "fix" /\ navMode = "navigating" /\ route = RouteB
  /\ stepIdx = 1 /\ livePos = <<0, 275>>
  /\ NearNext(livePos, StepsOf(route), 0) /\ NearNext(livePos, StepsOf(route), 1)

\* C3 (as stated): a run of consecutive off-route fixes, with no stop, arrival
\* or on-route fix in between, issues exactly one route fetch: once a timer
\* armed by the run has issued a fetch, no other timer armed by the same run
\* issues one.
C3_Original ==
  [][~(runFetch /\ \E t \in timers : t.id = runTimer /\ TimerFire(t))]_vars

\* C3 (amended): between two completions of a route fetch at most one reroute
\* timer is armed, whatever the number of off-route fixes, and every route
\* fetch issued consumes one armed timer; so N consecutive off-route fixes
\* with no fetch completion in between issue at most one fetch.
C3_OneTimerPerCycle ==
  [][ /\ cycArmed => TimerIds' \subseteq TimerIds
      /\ \/ fetches' \subseteq fetches
         \/ /\ Cardinality(fetches' \ fetches) = 1
            /\ Cardinality(timers \ timers') = 1 ]_vars

C3_Witness ==
  /\ last = "fix" /\ navMode = "navigating" /\ rerouting /\ cycArmed /\ mounted
  /\ IsOffRoute(livePos, StepsOf(route), stepIdx)
  /\ Cardinality(timers) = 1
  /\ \E t \in timers : t.id = runTimer /\ <<t.lat, t.lng>> # livePos

\* C4: once a route is active, armed timers plus outstanding fetches never
\* exceed 1, and the effect of a fix rendered while rerouting is true arms no
\* timer and issues no fetch.
C4_AtMostOnePending ==
  /\ [](route # NoRoute => Cardinality(timers) + Cardinality(fetches) <= 1)
  /\ [][(PastFirstReturn /\ effect.rerouting /\ EffectRuns) =>
          (TimerIds' \subseteq TimerIds /\ fetches' = fetches)]_vars

C4_Witness ==
  /\ last = "fix" /\ navMode = "navigating" /\ rerouting /\ mounted
  /\ route = RouteB /\ stepIdx = 0 /\ livePos = <<0, 130>>
  /\ timers = {} /\ Cardinality(fetches) = 1
  /\ \E f \in fetches : <<f.fromLat, f.fromLng>> # livePos

\* C5: a route fetch that completes with a route while the session is
\* navigating makes that route the active one, sets stepIdx to 0 and clears
\* rerouting, in one step.
C5_RerouteSuccess ==
  [][\A f \in fetches, resp \in Responses :
       (Navigating /\ ~resp.throws /\ Len(resp.routes) > 0 /\ FetchComplete(f, resp)) =>
         (route' = resp.routes[1] /\ stepIdx' = 0 /\ rerouting' = FALSE)]_vars

C5_Witness ==
  /\ last = "fetchOk" /\ navMode = "navigating" /\ mounted
  /\ route = RouteB /\ stepIdx = 0 /\ ~rerouting /\ rerouteTimer # NoHandle

\* C6: a reroute fetch that fails (a throw, or a body without routes) clears
\* rerouting and sets routeError, and leaves route and stepIdx as they were.
C6_RerouteFailure ==
  [][\A f \in fetches, resp \in Responses :
       ( /\ mounted /\ route # NoRoute
         /\ (resp.throws \/ Len(resp.routes) = 0)
         /\ FetchComplete(f, resp) ) =>
         ( /\ rerouting' = FALSE /\ routeError' # NoError
           /\ route' = route /\ stepIdx' = stepIdx )]_vars

C6_Witness ==
  /\ last = "fetchFail" /\ mounted /\ route = RouteA /\ stepIdx > 0
  /\ routeError # NoError /\ ~rerouting /\ rerouteTimer # NoHandle

\* C7 (as stated): the result of a fetch that was outstanding when the session
\* was stopped (stop, arrival or unmount) changes neither route nor stepIdx.
C7_Original ==
  [][\A f \in fetches, resp \in Responses :
       (f.id \in stale /\ FetchComplete(f, resp)) =>
         (route' = route /\ stepIdx' = stepIdx)]_vars

\* C8 (as stated): after the task of a Stop click no watch is held and no
\* timer is armed, and while navMode is 'preview' no position fix is
\* processed (no effect goes past its first return) and no timer fires.
C8_Original ==
  [][ /\ StopNavigation =>
           (watchRef' = NoHandle /\ watches' = {} /\ timers' = {})
      /\ (mounted /\ navMode = "preview") =>
           /\ ~(PastFirstReturn /\ EffectRuns)
           /\ \A t \in timers : ~TimerFire(t) ]_vars

\* C9 (as stated): a watch is held or a timer is armed only while the
\* component is mounted and navMode is 'navigating'.
C9_Original ==
  (watchRef # NoHandle \/ watches # {} \/ timers # {}) =>
    (mounted /\ navMode = "navigating")

\* C10 (as stated): start happens only from preview with a route and a known
\* position, and after it navMode is 'navigating', followUser is true and a
\* watch is held.
C10_Original ==
  [][StartNavigation =>
       /\ navMode = "preview" /\ route # NoRoute /\ livePos # NoPos
       /\ navMode' = "navigating" /\ followUser' = TRUE
       /\ watchRef' # NoHandle /\ watchRef' \in watches']_vars

\* C11 (as stated): whenever a route is present, 0 <= stepIdx < the number of
\* its steps.
C11_Original ==
  route # NoRoute => (0 <= stepIdx /\ stepIdx < Len(StepsOf(route)))

\* C12: after a route fetch has failed, the effect of the next fix rendered
\* while navigating, off-route (> 120 m from the current step) and not an
\* arrival, sets rerouting and arms a timer for that fix.
C12_RetriggerAfterFailure ==
  [][( /\ PastFirstReturn /\ effect.afterFail
       /\ ~IsArrival(livePos)
       /\ IsOffRoute(livePos, StepsOf(effect.route), effect.stepIdx)
       /\ EffectRuns ) =>
       ( /\ rerouting' = TRUE
         /\ \E t \in timers' : t \notin timers /\ t.lat = livePos[1] /\ t.lng = livePos[2] )]_vars

C12_Witness ==
  /\ last = "fix" /\ navMode = "navigating" /\ prev.routeError # NoError
  /\ rerouting /\ Cardinality(timers) = 1 /\ fetches = {}
  /\ \E t \in timers : <<t.lat, t.lng>> = livePos

\* C13 (as stated): rerouting is never true with nothing pending, and whenever
\* the session is navigating with no timer armed and no fetch outstanding, an
\* off-route fix that is not an arrival triggers a reroute.
C13_Original ==
  /\ []((mounted /\ rerouting) => (timers # {} \/ fetches # {} \/ effect # NoEffect))
  /\ [][( /\ PastFirstReturn /\ Navigating /\ timers = {} /\ fetches = {}
          /\ ~IsArrival(livePos)
          /\ IsOffRoute(livePos, StepsOf(effect.route), effect.stepIdx)
          /\ EffectRuns ) =>
          (rerouting' = TRUE /\ timers' # {})]_vars

\* C14 (as stated): a response with no routes, or whose first route has an
\* empty step list, is a failed fetch: route keeps its value and routeError is
\* set.
C14_Original ==
  [][\A f \in fetches, resp \in Responses :
       ( /\ mounted /\ ~resp.throws
         /\ (FirstRoute(resp) = NoRoute \/ Len(StepsOf(FirstRoute(resp))) = 0)
         /\ FetchComplete(f, resp) ) =>
         (route' = route /\ routeError' # NoError)]_vars

\* C15 (as stated): once routeError is set, only a successful route fetch
\* clears it.
C15_Original ==
  [][(routeError # NoError /\ routeError' = NoError) => last' = "fetchOk"]_vars

\* C15 (amended): once routeError is set, it stays set until the next route
\* fetch is issued: fetchRoute clears it when it is called, before its await,
\* and nothing else clears it.
C15_ErrorClearedAtFetchStart ==
  [][ /\ (routeError # NoError /\ routeError' = NoError) => last' = "timer"
      /\ (mounted /\ last' = "timer") => routeError' = NoError ]_vars

C15_Witness ==
  /\ last = "timer" /\ mounted /\ prev.routeError # NoError
  /\ routeError = NoError /\ fetches # {}

\* C16: followUser goes from false to true only by a recenter request or by
\* startNavigation.
C16_FollowOnlyByRecenterOrStart ==
  [][(followUser = FALSE /\ followUser' = TRUE) => last' \in {"recenter", "start"}]_vars

C16_Witness ==
  /\ last = "recenter" /\ prev.followUser = FALSE /\ followUser = TRUE

\* C17 (as stated): a manual pan of the map while navigating makes followUser
\* false, and a position fix leaves it false.
C17_Original ==
  [][ /\ (ManualPan /\ navMode = "navigating") => followUser' = FALSE
      /\ (followUser = FALSE /\ PositionEffect) => followUser' = FALSE ]_vars

\* C18 (as stated): stopNavigation leaves route, stepIdx and livePos
\* unchanged, and the startNavigation that follows it resumes on the route
\* and at the stepIdx that the stop found.
C18_Original ==
  [][ /\ StopNavigation =>
           (route' = route /\ stepIdx' = stepIdx /\ livePos' = livePos)
      /\ (StartNavigation /\ atStop # NoStop) =>
           (route' = atStop.route /\ stepIdx' = atStop.stepIdx) ]_vars

\* C19 (as stated): when the destination changes, the session goes to
\* preview, drops the route and the step index, and, if a position is known,
\* issues a route fetch to the new destination.
C19_Original ==
  [][\A g \in Garages :
       DestinationChanged(g) =>
         ( /\ navMode' = "preview" /\ route' = NoRoute /\ stepIdx' = 0
           /\ livePos # NoPos =>
                \E f \in fetches' \ fetches : f.toLat = g.lat /\ f.toLng = g.lng )]_vars

\* C20 (as stated): the session is never navigating without a held watch, and
\* a position source that is missing at start, or that reports an error, sets
\* routeError.
C20_Original ==
  /\ []((mounted /\ navMode = "navigating") =>
          (watchRef # NoHandle /\ watchRef \in watches))
  /\ [][((StartNavigation /\ ~geolocation) \/ WatchError) =>
          routeError' # NoError]_vars

\* C21: the effect of a fix rendered while navigating and closer than 25 m to
\* the destination leaves stepIdx and rerouting as they were and arms no
\* timer, also when the fix is within 35 m of the next maneuver or more than
\* 120 m from the current one.
C21_ArrivalSkipsStepLogic ==
  [][(PastFirstReturn /\ IsArrival(livePos) /\ EffectRuns) =>
       ( /\ stepIdx' = stepIdx /\ rerouting' = rerouting
         /\ TimerIds' \subseteq TimerIds /\ fetches' = fetches )]_vars

C21_Witness ==
  /\ last = "arrive" /\ route = RouteA /\ stepIdx = 1 /\ ~rerouting
  /\ IsArrival(livePos) /\ NearNext(livePos, StepsOf(route), stepIdx)
  /\ timers = {} /\ fetches = {}

\* C22: the effect that triggers a reroute sets rerouting in the same step,
\* with the timer only armed and no fetch issued yet; while that timer is
\* armed, the effects of further off-route fixes leave it as it is and arm no
\* other (run behind a stopNavigation, which cancels the timer, they arm no
\* other either).
C22_FlagSetAtTrigger ==
  [][(PastFirstReturn /\ ~IsArrival(livePos) /\ EffectRuns) =>
       LET off == IsOffRoute(livePos, StepsOf(effect.route), effect.stepIdx)
       IN /\ TimerIds' \ TimerIds # {} =>
               (rerouting' = TRUE /\ fetches' = fetches /\ fetches = {})
          /\ (~effect.rerouting /\ off) =>
               (rerouting' = TRUE /\ Cardinality(timers' \ timers) = 1)
          /\ (timers # {} /\ off) =>
               IF StopNavigation THEN timers' = {} ELSE timers' = timers ]_vars

C22_Witness ==
  /\ last = "fix" /\ navMode = "navigating" /\ mounted /\ rerouting
  /\ fetches = {} /\ Cardinality(timers) = 1
  /\ IsOffRoute(livePos, StepsOf(route), stepIdx) /\ ~IsArrival(livePos)
  /\ \E t \in timers : t.id = rerouteTimer /\ <<t.lat, t.lng>> # livePos

\* C23: the effect of a fix that is not an arrival, is within 35 m of the
\* maneuver of step stepIdx+1 and more than 120 m from the maneuver of step
\* stepIdx, rendered while navigating with rerouting false, both raises
\* stepIdx by 1 and triggers a reroute (rerouting set, a timer armed for that
\* fix).
C23_AdvanceAndReroute ==
  [][( /\ PastFirstReturn /\ ~IsArrival(livePos) /\ ~effect.rerouting
       /\ NearNext(livePos, StepsOf(effect.route), effect.stepIdx)
       /\ IsOffRoute(livePos, StepsOf(effect.route), effect.stepIdx)
       /\ EffectRuns ) =>
       ( /\ stepIdx' = stepIdx + 1
         /\ rerouting' = TRUE
         /\ \E t \in timers' \ timers : t.lat = livePos[1] /\ t.lng = livePos[2] )]_vars

C23_Witness ==
  /\ last = "fix" /\ navMode = "navigating" /\ mounted
  /\ route = RouteA /\ stepIdx = 1 /\ livePos = <<0, 130>>
  /\ rerouting /\ fetches = {}
  /\ \E t \in timers : t.id = rerouteTimer /\ <<t.lat, t.lng>> = livePos
  /\ ~IsOffRoute(livePos, StepsOf(route), stepIdx)

\* C24: once a timer is armed, the effect of a fix that is back within 120 m
\* of the current step leaves it armed; the timer was armed with the fix that
\* triggered it, and when it fires it issues one fetch from that fix,
\* whatever livePos is by then; an armed timer stays pending until it fires
\* or a stop, an arrival or the cleanup of the unmount cancels it.
C24_EligibilityAtArmTime ==
  [][ /\ (PastFirstReturn /\ ~IsArrival(livePos) /\ EffectRuns) =>
           /\ (EffectAlone /\ ~IsOffRoute(livePos, StepsOf(effect.route), effect.stepIdx)) =>
                timers' = timers
           /\ \A t \in timers' \ timers : t.lat = livePos[1] /\ t.lng = livePos[2]
      /\ \A t \in timers :
           TimerFire(t) =>
             \E f \in fetches' :
               /\ fetches' \ fetches = {f}
               /\ f.fromLat = t.lat /\ f.fromLng = t.lng
      /\ \A t \in timers \ timers' :
           \/ TimerFire(t)
           \/ StopNavigation
           \/ UnmountCleanup
           \/ (PastFirstReturn /\ IsArrival(livePos) /\ EffectRuns) ]_vars

C24_Witness ==
  /\ last = "timer" /\ navMode = "navigating" /\ mounted /\ rerouting
  /\ timers = {} /\ livePos # NoPos /\ effect = NoEffect /\ queued = NoPos
  /\ ~IsOffRoute(livePos, StepsOf(route), stepIdx)
  /\ \E f \in fetches : <<f.fromLat, f.fromLng>> # livePos
                        /\ IsOffRoute(<<f.fromLat, f.fromLng>>, StepsOf(route), stepIdx)

\* C25: the three comparisons are strict, for every route: in the effect of a
\* fix rendered while navigating, a fix exactly 25 m from the destination is
\* not an arrival, a fix exactly 35 m from the maneuver of step stepIdx+1
\* does not raise stepIdx, and a fix exactly 120 m from the maneuver of step
\* stepIdx arms no timer and does not set rerouting.
C25_StrictThresholds ==
  [][(PastFirstReturn /\ EffectAlone) =>
       LET steps == StepsOf(effect.route)
           idx == effect.stepIdx
           here(loc) == DistSq(livePos[1], livePos[2], loc[2], loc[1])
       IN /\ DistSq(livePos[1], livePos[2], garage.lat, garage.lng)
               = ArriveMeters * ArriveMeters =>
               (navMode' = navMode /\ watchRef' = watchRef)
          /\ ( /\ ~IsArrival(livePos) /\ HasStep(steps, idx + 1)
               /\ here(Location(steps, idx + 1)) = AdvanceMeters * AdvanceMeters ) =>
               stepIdx' = stepIdx
          /\ ( /\ ~IsArrival(livePos) /\ HasStep(steps, idx)
               /\ here(Location(steps, idx)) = OffRouteMeters * OffRouteMeters ) =>
               (timers' = timers /\ rerouting' = rerouting) ]_vars

C25_Witness ==
  /\ last = "fix" /\ navMode = "navigating" /\ mounted /\ garage = Garage
  /\ route = RouteA /\ stepIdx = 2 /\ livePos = <<0, 275>>
  /\ DistSq(livePos[1], livePos[2], garage.lat, garage.lng) = ArriveMeters * ArriveMeters
  /\ DistSq(livePos[1], livePos[2], 0, 155) = OffRouteMeters * OffRouteMeters
  /\ ~rerouting /\ timers = {} /\ fetches = {} /\ watchRef \in watches

\* C26: whenever a reroute timer is armed, rerouting is true, and no fetch is
\* outstanding whose completion could clear it; so no completion of a route
\* fetch, the one issued at mount included, happens while a timer is armed.
C26_ArmedImpliesRerouting ==
  /\ [](timers # {} => (rerouting /\ fetches = {}))
  /\ [][\A f \in fetches, resp \in Responses :
          FetchComplete(f, resp) => (timers = {} /\ timers' = {})]_vars

C26_Witness ==
  /\ last = "fix" /\ navMode = "navigating" /\ mounted
  /\ route = RouteB /\ stepIdx = 0
  /\ Cardinality(timers) = 1 /\ rerouting /\ fetches = {} /\ stale = {}

\* C27 (as stated): with timers that fire and fetches that settle, whenever
\* rerouting is true in the mounted component it is eventually false again,
\* also when a stop or an arrival falls in the debounce window.
C27_Original ==
  (mounted /\ rerouting) ~> (~rerouting \/ ~mounted)

\* C28: once a route is set, route is never null again while the component
\* lives, and it changes only by a fetch completing with a route, which
\* replaces it with that route.
C28_RouteNeverCleared ==
  [][ /\ route # NoRoute => route' # NoRoute
      /\ route' # route =>
           ( /\ last' = "fetchOk"
             /\ \E resp \in Responses : ~resp.throws /\ route' = FirstRoute(resp) ) ]_vars

C28_Witness ==
  /\ last = "fetchFail" /\ mounted /\ routeError = "Could not load route"
  /\ route = RouteB /\ navMode = "preview" /\ stepIdx = 0
  /\ rerouteTimer # NoHandle /\ ~rerouting
====
